---- MODULE Spec2Model ----
(***************************************************************************)
(* A model of SceneManager (Source/SceneManager.cpp): the texture registry *)
(* (m_textureIDs, m_loadedTextures), the material list                     *)
(* (m_objectMaterials), the transform composer (SetTransformations) and    *)
(* the scene script (PrepareScene, RenderScene), together with the part of *)
(* the graphics API, the image decoder and the shader that the code        *)
(* drives.                                                                 *)
(*                                                                         *)
(* Five specifications share the variables:                                *)
(*   Spec       the texture registry under arbitrary CreateGLTexture,      *)
(*              FindTextureID and FindTextureSlot calls;                   *)
(*   SpecShader the shader setters, the lookups and the scene script;      *)
(*   SpecXform  SetTransformations over a grid of arguments;               *)
(*   SpecScene  PrepareScene and RenderScene over every set of failing     *)
(*              texture files;                                             *)
(*   SpecGL     CreateGLTexture, BindGLTextures, SetShaderTexture and the  *)
(*              destructor, over the texture units of the graphics API.    *)
(***************************************************************************)
EXTENDS Integers, Sequences, FiniteSets, TLC

\* ------------------------------------------------------------------ bounds

\* Irregular loads in one behaviour of Spec: loads of an image with an
\* unsupported channel count plus registrations that repeat a tag already in
\* the registry.
MaxIrregular == 1

\* ------------------------------------------------------- program constants

\* Size of the m_textureIDs array.
TextureCapacity == 16

NULL == "NULL"

\* The tag the constructor writes into every slot.
InitialTag == "/0"

\* ----------------------------------------------------------------- state

VARIABLES
    m_pShaderManager,   \* NULL or the shader manager handed to the constructor
    m_textureIDs,       \* [0..15 -> [tag, ID]]; ID is the 32-bit field read as an int
    m_loadedTextures,   \* the "loaded count" cursor
    m_objectMaterials,  \* sequence of materials
    disk,               \* file name -> channel count the decoder reports (0: no decode)
    glNextName,         \* next texture name glGenTextures hands out
    glActiveUnit,       \* the active texture unit
    glUnits,            \* texture unit -> name bound to GL_TEXTURE_2D
    imagesLive,         \* decoded pixel buffers not yet freed
    uniforms,           \* the shader's uniforms, as last set
    callLog,            \* the calls the last PrepareScene or RenderScene made, in order
    lastCall,           \* the last call made on the scene manager and its result
    regLog,             \* history: the registrations made, in order
    oobIndex,           \* history: an index outside the array that was written, or -1
    boundCount,         \* history: the loaded count at the last BindGLTextures, or -1
    status              \* "running", "crashed", or "undefined" after undefined behaviour

vars == <<m_pShaderManager, m_textureIDs, m_loadedTextures, m_objectMaterials,
          disk, glNextName, glActiveUnit, glUnits, imagesLive, uniforms,
          callLog, lastCall, regLog, oobIndex, boundCount, status>>

registry == <<m_textureIDs, m_loadedTextures, m_objectMaterials>>

Slots == 0 .. (TextureCapacity - 1)

\* The state a method works on, as a record; ret is what the method returns.
\* A method is a function from such a record to the set of records it can
\* leave: one record, or several where the code's behaviour is undefined.
Here ==
    [m_textureIDs |-> m_textureIDs, m_loadedTextures |-> m_loadedTextures,
     m_objectMaterials |-> m_objectMaterials, glNextName |-> glNextName,
     glActiveUnit |-> glActiveUnit, glUnits |-> glUnits, imagesLive |-> imagesLive,
     uniforms |-> uniforms, callLog |-> <<>>, regLog |-> regLog,
     oobIndex |-> oobIndex, boundCount |-> boundCount, status |-> status,
     ret |-> "void"]

\* The members and the graphics state take the values of record s.
Assigns(s) ==
    /\ m_textureIDs' = s.m_textureIDs
    /\ m_loadedTextures' = s.m_loadedTextures
    /\ m_objectMaterials' = s.m_objectMaterials
    /\ glNextName' = s.glNextName
    /\ glActiveUnit' = s.glActiveUnit
    /\ glUnits' = s.glUnits
    /\ imagesLive' = s.imagesLive
    /\ uniforms' = s.uniforms
    /\ callLog' = s.callLog
    /\ regLog' = s.regLog
    /\ oobIndex' = s.oobIndex
    /\ boundCount' = s.boundCount
    /\ status' = s.status

Becomes(s) ==
    /\ Assigns(s)
    /\ UNCHANGED <<m_pShaderManager, disk>>

\* ------------------------------------------------------------ constructor

NoUniforms ==
    [model |-> "unset", bUseTexture |-> "unset", objectTexture |-> "unset",
     objectColor |-> "unset", material |-> "unset", lights |-> "unset"]

\* SceneManager::SceneManager: every slot gets tag "/0" and ID -1, count 0.
Constructed(pShaderManager) ==
    /\ m_pShaderManager = pShaderManager
    /\ m_textureIDs = [i \in Slots |-> [tag |-> InitialTag, ID |-> -1]]
    /\ m_loadedTextures = 0
    /\ m_objectMaterials = <<>>
    /\ glNextName = 1
    /\ glActiveUnit = 0
    /\ glUnits = [u \in Slots |-> 0]
    /\ imagesLive = 0
    /\ uniforms = NoUniforms
    /\ callLog = <<>>
    /\ lastCall = [op |-> "SceneManager", tag |-> "", ret |-> "void"]
    /\ regLog = <<>>
    /\ oobIndex = -1
    /\ boundCount = -1
    /\ status = "running"

\* ------------------------------------------------------- texture loading

\* The outcomes of the write to m_textureIDs[m_loadedTextures] when the
\* cursor is outside the array: undefined behaviour. The process may stop,
\* or the write lands in whatever follows the array and the call returns
\* with the members next to it holding what the write left there.
OutOfBoundsWrite(s, tag, textureID) ==
    {[s EXCEPT !.oobIndex = s.m_loadedTextures, !.status = "crashed", !.ret = "none"]}
    \cup
    {[s EXCEPT !.oobIndex = s.m_loadedTextures, !.status = "undefined", !.ret = "true",
               !.m_loadedTextures = n, !.m_objectMaterials = m] :
        n \in 0 .. (TextureCapacity + 1), m \in {s.m_objectMaterials, <<>>}}

\* The channel counts CreateGLTexture uploads: 3 as GL_RGB8, 4 as GL_RGBA8.
SupportedChannels_AnyCount(colorChannels) == colorChannels > 0

SupportedChannels(colorChannels) == colorChannels \in {3, 4}

\* "register the loaded texture and associate it with the special tag
\* string": the entry at the cursor takes the ID and the tag, and the cursor
\* advances by one.
RegisterTexture_SkipsSlot(s, tag, textureID) ==
    [s EXCEPT !.m_textureIDs[s.m_loadedTextures] = [tag |-> tag, ID |-> textureID],
              !.m_loadedTextures = s.m_loadedTextures + 2,
              !.regLog = Append(s.regLog,
                    [tag |-> tag, index |-> s.m_loadedTextures, ID |-> textureID])]

RegisterTexture(s, tag, textureID) ==
    [s EXCEPT !.m_textureIDs[s.m_loadedTextures] = [tag |-> tag, ID |-> textureID],
              !.m_loadedTextures = s.m_loadedTextures + 1,
              !.regLog = Append(s.regLog,
                    [tag |-> tag, index |-> s.m_loadedTextures, ID |-> textureID])]

\* SceneManager::CreateGLTexture: decode, generate and bind a texture name,
\* upload by channel count, generate the mipmaps, free the image, unbind,
\* register.
CreateGLTextureFrom(s, filename, tag) ==
    LET colorChannels == disk[filename]
        textureID == s.glNextName
        \* glGenTextures, glBindTexture(GL_TEXTURE_2D, textureID); the image is live
        bound == [s EXCEPT !.glNextName = s.glNextName + 1,
                           !.glUnits[s.glActiveUnit] = textureID,
                           !.imagesLive = s.imagesLive + 1]
        \* stbi_image_free, glBindTexture(GL_TEXTURE_2D, 0)
        released == [bound EXCEPT !.imagesLive = bound.imagesLive - 1,
                                  !.glUnits[s.glActiveUnit] = 0]
    IN  IF colorChannels = 0
        THEN \* stbi_load returned NULL: "Could not load image"
             {[s EXCEPT !.ret = "false"]}
        ELSE IF ~SupportedChannels(colorChannels)
        THEN \* "Not implemented to handle image with n channels"
             {[bound EXCEPT !.ret = "false"]}
        ELSE IF released.m_loadedTextures \in Slots
        THEN {[RegisterTexture(released, tag, textureID) EXCEPT !.ret = "true"]}
        ELSE OutOfBoundsWrite(released, tag, textureID)

\* SceneManager::BindGLTextures: unit i gets the ID of entry i, for every i
\* below the cursor; the last unit bound stays the active one.
BindGLTexturesFrom(s) ==
    {[s EXCEPT !.glUnits = [u \in Slots |->
                              IF u < s.m_loadedTextures
                              THEN s.m_textureIDs[u].ID
                              ELSE s.glUnits[u]],
               !.glActiveUnit = IF s.m_loadedTextures > 0
                                THEN s.m_loadedTextures - 1
                                ELSE s.glActiveUnit,
               !.boundCount = s.m_loadedTextures,
               !.ret = "void"]}

\* ------------------------------------------------------- texture lookups

\* SceneManager::FindTextureID: the ID of the first entry below the cursor
\* whose tag equals the argument, as an int; -1 when there is none.
RECURSIVE FindTextureIDFrom(_, _, _)
FindTextureIDFrom(s, tag, index) ==
    IF index < s.m_loadedTextures
    THEN IF s.m_textureIDs[index].tag = tag
         THEN s.m_textureIDs[index].ID
         ELSE FindTextureIDFrom(s, tag, index + 1)
    ELSE -1

FindTextureIDIn_LastMatch(s, tag) ==
    LET matches == {i \in Slots : i < s.m_loadedTextures /\ s.m_textureIDs[i].tag = tag}
    IN  IF matches = {}
        THEN -1
        ELSE s.m_textureIDs[CHOOSE i \in matches : \A j \in matches : j <= i].ID

FindTextureIDIn(s, tag) == FindTextureIDFrom(s, tag, 0)

FindTextureID(tag) == FindTextureIDIn(Here, tag)

\* SceneManager::FindTextureSlot: the first index below the cursor whose tag
\* equals the argument; -1 when there is none.
RECURSIVE FindTextureSlotFrom(_, _, _)
FindTextureSlotFrom(s, tag, index) ==
    IF index < s.m_loadedTextures
    THEN IF s.m_textureIDs[index].tag = tag
         THEN index
         ELSE FindTextureSlotFrom(s, tag, index + 1)
    ELSE -1

FindTextureSlotIn_FromOne(s, tag) == FindTextureSlotFrom(s, tag, 1)

FindTextureSlotIn(s, tag) == FindTextureSlotFrom(s, tag, 0)

FindTextureSlot(tag) == FindTextureSlotIn(Here, tag)

\* ------------------------------------------- the texture registry: Spec

\* Tag strings. The code only compares tags for equality, so a call with a
\* tag not yet in the registry is represented by the first unused name.
TagPool ==
    <<"desk", "keyboard", "rest", "notebook", "metal", "wood", "pencil",
      "metal1", "eraser", "t10", "t11", "t12", "t13", "t14", "t15", "t16",
      "t17", "t18">>

\* A tag that is never registered.
AbsentTag == "absent"

RegisteredTags == {m_textureIDs[i].tag : i \in {j \in Slots : j < m_loadedTextures}}

Repeats ==
    Cardinality({i \in Slots : /\ i < m_loadedTextures
                               /\ \E j \in Slots : j < i /\ m_textureIDs[j].tag = m_textureIDs[i].tag})

FreshTag == TagPool[Cardinality(RegisteredTags) + 1]

Irregular == Repeats + imagesLive

\* Tags a CreateGLTexture call is made with: a new one, or (within
\* MaxIrregular) the tag of the oldest or of the newest entry again.
LoadTags ==
    {FreshTag} \cup
    (IF Irregular < MaxIrregular /\ m_loadedTextures \in 1 .. TextureCapacity
     THEN {m_textureIDs[0].tag, m_textureIDs[m_loadedTextures - 1].tag}
     ELSE {})

\* Files on disk: an RGB image, an RGBA image, a one-channel image and a
\* file the decoder rejects.
ApiDisk ==
    [f \in {"rgb.jpg", "rgba.png", "gray.png", "missing.jpg"} |->
        CASE f = "rgb.jpg" -> 3
          [] f = "rgba.png" -> 4
          [] f = "gray.png" -> 1
          [] OTHER -> 0]

\* Tags the lookups are called with: the oldest and the newest registered
\* tag and one that was never registered.
ProbeTags ==
    {AbsentTag} \cup
    (IF m_loadedTextures \in 1 .. TextureCapacity
     THEN {m_textureIDs[0].tag, m_textureIDs[m_loadedTextures - 1].tag}
     ELSE {})

Init ==
    /\ Constructed("shader")
    /\ disk = ApiDisk

CreateGLTexture ==
    /\ status = "running"
    /\ \E filename \in DOMAIN disk, tag \in LoadTags :
          /\ disk[filename] \in {0, 3, 4} \/ Irregular < MaxIrregular
          /\ \E s \in CreateGLTextureFrom(Here, filename, tag) :
                /\ Becomes(s)
                /\ lastCall' = [op |-> "CreateGLTexture", tag |-> tag, ret |-> s.ret]

CallFindTextureID ==
    /\ status = "running"
    /\ \E tag \in ProbeTags :
          lastCall' = [op |-> "FindTextureID", tag |-> tag, ret |-> FindTextureID(tag)]
    /\ Becomes(Here)

CallFindTextureSlot ==
    /\ status = "running"
    /\ \E tag \in ProbeTags :
          lastCall' = [op |-> "FindTextureSlot", tag |-> tag, ret |-> FindTextureSlot(tag)]
    /\ Becomes(Here)

Next ==
    \/ CreateGLTexture
    \/ CallFindTextureID
    \/ CallFindTextureSlot

Spec == Init /\ [][Next]_vars

\* ------------------------------------------------------ transformations

\* Numbers (floats in the code) are fixed-point, in thousandths; angles are
\* in thousandths of a degree.
One == 1000

FxMul(a, b) == (a * b) \div One

\* cos and sin of glm::radians(degrees), for the angles the scene script and
\* the checked grid use, rounded to thousandths.
CosDeg(deg) ==
    CASE deg = 0 -> 1000
      [] deg = 1800 -> 1000
      [] deg = 45000 -> 707
      [] deg = 90000 -> 0
      [] deg = 180000 -> -1000
      [] deg = -90000 -> 0

SinDeg(deg) ==
    CASE deg = 0 -> 0
      [] deg = 1800 -> 31
      [] deg = 45000 -> 707
      [] deg = 90000 -> 1000
      [] deg = 180000 -> 0
      [] deg = -90000 -> -1000

\* A mat4 as rows of columns: m[r][c], r, c in 1..4.
Mat4(r1, r2, r3, r4) == <<r1, r2, r3, r4>>

Identity4 ==
    Mat4(<<One, 0, 0, 0>>, <<0, One, 0, 0>>, <<0, 0, One, 0>>, <<0, 0, 0, One>>)

\* One element of the product of two mat4.
MatCell(a, b, r, c) ==
    FxMul(a[r][1], b[1][c]) + FxMul(a[r][2], b[2][c])
  + FxMul(a[r][3], b[3][c]) + FxMul(a[r][4], b[4][c])

MatRow(a, b, r) ==
    <<MatCell(a, b, r, 1), MatCell(a, b, r, 2), MatCell(a, b, r, 3), MatCell(a, b, r, 4)>>

\* operator* of two mat4
MatMul(a, b) == Mat4(MatRow(a, b, 1), MatRow(a, b, 2), MatRow(a, b, 3), MatRow(a, b, 4))

\* glm::scale(v)
ScaleMat(v) ==
    Mat4(<<v[1], 0, 0, 0>>, <<0, v[2], 0, 0>>, <<0, 0, v[3], 0>>, <<0, 0, 0, One>>)

\* glm::translate(v)
TranslateMat(v) ==
    Mat4(<<One, 0, 0, v[1]>>, <<0, One, 0, v[2]>>, <<0, 0, One, v[3]>>, <<0, 0, 0, One>>)

\* glm::rotate(glm::radians(deg), vec3(1, 0, 0))
RotateX_SinCosSwapped(deg) ==
    LET c == SinDeg(deg)
        s == CosDeg(deg)
    IN  Mat4(<<One, 0, 0, 0>>, <<0, c, -s, 0>>, <<0, s, c, 0>>, <<0, 0, 0, One>>)

RotateX(deg) ==
    LET c == CosDeg(deg)
        s == SinDeg(deg)
    IN  Mat4(<<One, 0, 0, 0>>, <<0, c, -s, 0>>, <<0, s, c, 0>>, <<0, 0, 0, One>>)

\* glm::rotate(glm::radians(deg), vec3(0, 1, 0))
RotateY(deg) ==
    LET c == CosDeg(deg)
        s == SinDeg(deg)
    IN  Mat4(<<c, 0, s, 0>>, <<0, One, 0, 0>>, <<-s, 0, c, 0>>, <<0, 0, 0, One>>)

\* glm::rotate(glm::radians(deg), vec3(0, 0, 1))
RotateZ(deg) ==
    LET c == CosDeg(deg)
        s == SinDeg(deg)
    IN  Mat4(<<c, -s, 0, 0>>, <<s, c, 0, 0>>, <<0, 0, One, 0>>, <<0, 0, 0, One>>)

\* modelView = translation * rotationZ * rotationY * rotationX * scale,
\* multiplied left to right as C++ does.
ModelView_ScaleLast(scaleXYZ, Xdeg, Ydeg, Zdeg, positionXYZ) ==
    MatMul(MatMul(MatMul(MatMul(ScaleMat(scaleXYZ), RotateX(Xdeg)),
                         RotateY(Ydeg)), RotateZ(Zdeg)), TranslateMat(positionXYZ))

ModelView(scaleXYZ, Xdeg, Ydeg, Zdeg, positionXYZ) ==
    MatMul(MatMul(MatMul(MatMul(TranslateMat(positionXYZ), RotateZ(Zdeg)),
                         RotateY(Ydeg)), RotateX(Xdeg)), ScaleMat(scaleXYZ))

\* The end of SetTransformations: the matrix goes to the "model" uniform
\* when there is a shader manager.
SendModelView_ClearsMaterials(s, modelView) ==
    IF NULL # m_pShaderManager
    THEN {[s EXCEPT !.uniforms.model = modelView, !.m_objectMaterials = <<>>,
                    !.ret = "void"]}
    ELSE {[s EXCEPT !.ret = "void"]}

SendModelView(s, modelView) ==
    IF NULL # m_pShaderManager
    THEN {[s EXCEPT !.uniforms.model = modelView, !.ret = "void"]}
    ELSE {[s EXCEPT !.ret = "void"]}

\* SceneManager::SetTransformations
SetTransformationsFrom(s, scaleXYZ, Xdeg, Ydeg, Zdeg, positionXYZ) ==
    SendModelView(s, ModelView(scaleXYZ, Xdeg, Ydeg, Zdeg, positionXYZ))

\* -------------------------------------------------------------- materials

Vec3(x, y, z) == <<x, y, z>>

Material(tag, ambientColor, ambientStrength, diffuseColor, specularColor, shininess) ==
    [tag |-> tag, ambientColor |-> ambientColor, ambientStrength |-> ambientStrength,
     diffuseColor |-> diffuseColor, specularColor |-> specularColor,
     shininess |-> shininess]

\* The eight materials DefineObjectMaterials pushes, in order.
SceneMaterials ==
    <<Material("carbon", Vec3(10, 10, 10), 400, Vec3(50, 50, 50), Vec3(200, 200, 200), 5000),
      Material("plastic", Vec3(100, 100, 100), 300, Vec3(100, 100, 100), Vec3(100, 100, 100), 25000),
      Material("fabric", Vec3(10, 10, 10), 100, Vec3(50, 50, 50), Vec3(10, 10, 10), 5000),
      Material("note", Vec3(10, 10, 200), 400, Vec3(400, 400, 400), Vec3(500, 500, 500), 100000),
      Material("wood", Vec3(100, 100, 50), 100, Vec3(200, 200, 150), Vec3(100, 100, 50), 50000),
      Material("pencil", Vec3(300, 300, 0), 400, Vec3(700, 700, 0), Vec3(900, 900, 0), 10000),
      Material("metal", Vec3(500, 500, 500), 400, Vec3(800, 800, 800), Vec3(900, 900, 900), 100000),
      Material("rubber", Vec3(500, 370, 400), 900, Vec3(500, 370, 400), Vec3(10, 7, 8), 10000)>>

\* SceneManager::DefineObjectMaterials: eight push_back calls.
DefineObjectMaterialsFrom(s) ==
    {[s EXCEPT !.m_objectMaterials = s.m_objectMaterials \o SceneMaterials,
               !.ret = "void"]}

\* What an OBJECT_MATERIAL local holds before anything is stored in it: the
\* tag is an empty string, the numbers are whatever the stack held.
IndeterminateMaterials ==
    {Material("", Vec3(0, 0, 0), 0, Vec3(0, 0, 0), Vec3(0, 0, 0), 0),
     Material("", Vec3(-1, 7, 7), 7, Vec3(-1, 7, 7), Vec3(7, -1, 7), -1)}

\* The loop of FindMaterial: the caller's material with the diffuse colour,
\* the specular colour and the shininess of the first entry whose tag
\* equals the argument, or the caller's material as it was.
RECURSIVE FindMaterialFrom(_, _, _, _)
FindMaterialFrom(s, tag, material, index) ==
    IF index < Len(s.m_objectMaterials)
    THEN IF s.m_objectMaterials[index + 1].tag = tag
         THEN [material EXCEPT
                 !.diffuseColor = s.m_objectMaterials[index + 1].diffuseColor,
                 !.specularColor = s.m_objectMaterials[index + 1].specularColor,
                 !.shininess = s.m_objectMaterials[index + 1].shininess]
         ELSE FindMaterialFrom(s, tag, material, index + 1)
    ELSE material

\* SceneManager::FindMaterial: false on an empty list; otherwise the loop,
\* and then "return(true)".
FindMaterialIn(s, tag, material) ==
    IF Len(s.m_objectMaterials) = 0
    THEN [ret |-> "false", material |-> material]
    ELSE [ret |-> "true", material |-> FindMaterialFrom(s, tag, material, 0)]

\* ------------------------------------------------------------ the shader

\* A call through m_pShaderManager when it is NULL: undefined behaviour.
NullDereference(s) ==
    {[s EXCEPT !.status = "crashed", !.ret = "none"],
     [s EXCEPT !.status = "undefined", !.ret = "void"]}

\* SceneManager::SetShaderColor
SetShaderColorFrom(s, rgba) ==
    IF NULL # m_pShaderManager
    THEN {[s EXCEPT !.uniforms.bUseTexture = FALSE, !.uniforms.objectColor = rgba,
                    !.ret = "void"]}
    ELSE {[s EXCEPT !.ret = "void"]}

\* SceneManager::SetShaderTexture
SetShaderTextureFrom_TextureOff(s, textureTag) ==
    IF NULL # m_pShaderManager
    THEN {[s EXCEPT !.uniforms.bUseTexture = FALSE,
                    !.uniforms.objectTexture = FindTextureSlotIn(s, textureTag),
                    !.ret = "void"]}
    ELSE {[s EXCEPT !.ret = "void"]}

SetShaderTextureFrom(s, textureTag) ==
    IF NULL # m_pShaderManager
    THEN {[s EXCEPT !.uniforms.bUseTexture = TRUE,
                    !.uniforms.objectTexture = FindTextureSlotIn(s, textureTag),
                    !.ret = "void"]}
    ELSE {[s EXCEPT !.ret = "void"]}

\* SceneManager::SetShaderMaterial: the local material is not initialised
\* before FindMaterial is called with it.
SetShaderMaterialFrom(s, materialTag) ==
    IF Len(s.m_objectMaterials) > 0
    THEN UNION {LET found == FindMaterialIn(s, materialTag, material)
                IN  IF found.ret = "true"
                    THEN IF NULL # m_pShaderManager
                         THEN {[s EXCEPT !.uniforms.material =
                                    [diffuseColor |-> found.material.diffuseColor,
                                     specularColor |-> found.material.specularColor,
                                     shininess |-> found.material.shininess],
                                  !.ret = "void"]}
                         ELSE NullDereference(s)
                    ELSE {[s EXCEPT !.ret = "void"]}
                : material \in IndeterminateMaterials}
    ELSE {[s EXCEPT !.ret = "void"]}

\* SceneManager::SetupSceneLights: every line goes through m_pShaderManager.
SetupSceneLightsFrom(s) ==
    IF NULL # m_pShaderManager
    THEN {[s EXCEPT !.uniforms.lights = "set", !.ret = "void"]}
    ELSE NullDereference(s)

\* ------------------------------------------------------- the scene script

\* F applied to every record of S that is still running.
Then(S, F(_)) == UNION {IF s.status = "running" THEN F(s) ELSE {s} : s \in S}

Log(s, event) == [s EXCEPT !.callLog = Append(s.callLog, event)]

\* The nine loads of LoadSceneTextures, in order.
SceneLoads ==
    <<<<"textures/desktop.jpg", "desk">>,
      <<"textures/keyboard.jpg", "keyboard">>,
      <<"textures/rest.jpg", "rest">>,
      <<"textures/notebook.jpg", "notebook">>,
      <<"textures/metal.jpg", "metal">>,
      <<"textures/wood.jpg", "wood">>,
      <<"textures/pencil.jpg", "pencil">>,
      <<"textures/metal1.jpg", "metal1">>,
      <<"textures/eraser.jpg", "eraser">>>>

\* Load k of LoadSceneTextures: "bReturn = CreateGLTexture(file, tag);".
\* The value stored in bReturn is not looked at.
LoadOne_UnlessFailed(s, k) ==
    IF s.ret = "false"
    THEN {s}
    ELSE {Log(t, [op |-> "CreateGLTexture", filename |-> SceneLoads[k][1],
                  tag |-> SceneLoads[k][2], ret |-> t.ret]) :
             t \in CreateGLTextureFrom(s, SceneLoads[k][1], SceneLoads[k][2])}

LoadOne_TagIsFile(s, k) ==
    {Log(t, [op |-> "CreateGLTexture", filename |-> SceneLoads[k][1],
             tag |-> SceneLoads[k][2], ret |-> t.ret]) :
        t \in CreateGLTextureFrom(s, SceneLoads[k][1], SceneLoads[k][1])}

LoadOne(s, k) ==
    {Log(t, [op |-> "CreateGLTexture", filename |-> SceneLoads[k][1],
             tag |-> SceneLoads[k][2], ret |-> t.ret]) :
        t \in CreateGLTextureFrom(s, SceneLoads[k][1], SceneLoads[k][2])}

\* Loads k.. of LoadSceneTextures.
RECURSIVE LoadFrom(_, _)
LoadFrom(S, k) ==
    IF k > Len(SceneLoads)
    THEN S
    ELSE LET load(s) == LoadOne(s, k)
         IN  LoadFrom(Then(S, load), k + 1)

\* SceneManager::LoadSceneTextures
LoadSceneTexturesFrom(s) ==
    LET bind(t) == {Log(b, [op |-> "BindGLTextures"]) : b \in BindGLTexturesFrom(t)}
    IN  Then(LoadFrom({s}, 1), bind)

\* The mesh loads of PrepareScene, in order.
MeshLoads ==
    <<"LoadPlaneMesh", "LoadPrismMesh", "LoadBoxMesh", "LoadCylinderMesh",
      "LoadConeMesh", "LoadTorusMesh", "LoadBoxMesh2">>

RECURSIVE LoadMeshesFrom(_, _)
LoadMeshesFrom(s, k) ==
    IF k > Len(MeshLoads)
    THEN s
    ELSE LoadMeshesFrom(Log(s, [op |-> MeshLoads[k]]), k + 1)

\* SceneManager::PrepareScene
PrepareSceneFrom(s) ==
    LET materials(t) == {Log(d, [op |-> "DefineObjectMaterials"]) :
                            d \in DefineObjectMaterialsFrom(t)}
        lights(t) == {Log(l, [op |-> "SetupSceneLights"]) : l \in SetupSceneLightsFrom(t)}
        meshes(t) == {[LoadMeshesFrom(t, 1) EXCEPT !.ret = "void"]}
    IN  Then(Then(Then(Then({s}, materials), LoadSceneTexturesFrom), lights), meshes)

\* The calls of RenderScene, in order, with the arguments the locals hold at
\* each call.
SceneScript ==
    <<[op |-> "SetTransformations", args |-> <<<<15000, 1000, 5000>>, 0, 0, 0, <<0, 0, 4000>>>>],
      [op |-> "SetShaderMaterial", tag |-> "carbon"],
      [op |-> "SetShaderTexture", tag |-> "desk"],
      [op |-> "Draw", mesh |-> "DrawPlaneMesh"],
      [op |-> "SetTransformations", args |-> <<<<10000, 200, 4000>>, 1800, 0, 0, <<0, 50, 4000>>>>],
      [op |-> "SetShaderTexture", tag |-> "keyboard"],
      [op |-> "SetShaderMaterial", tag |-> "plastic"],
      [op |-> "Draw", mesh |-> "DrawBoxMesh"],
      [op |-> "SetTransformations", args |-> <<<<1000, 50, 1000>>, 0, 0, 0, <<7000, 0, 4000>>>>],
      [op |-> "SetShaderTexture", tag |-> "rest"],
      [op |-> "SetShaderMaterial", tag |-> "fabric"],
      [op |-> "Draw", mesh |-> "DrawCylinderMesh"],
      [op |-> "SetTransformations", args |-> <<<<9500, 50, 1500>>, 0, 0, 0, <<0, 50, 7000>>>>],
      [op |-> "Draw", mesh |-> "DrawBoxMesh"],
      [op |-> "SetTransformations", args |-> <<<<9400, 150, 1400>>, 0, 0, 0, <<0, 100, 7000>>>>],
      [op |-> "Draw", mesh |-> "DrawBoxMesh"],
      [op |-> "SetTransformations", args |-> <<<<4800, 100, 6000>>, 0, 0, 0, <<-9000, 50, 4500>>>>],
      [op |-> "SetShaderTexture", tag |-> "notebook"],
      [op |-> "SetShaderMaterial", tag |-> "note"],
      [op |-> "Draw", mesh |-> "DrawBoxMesh2"],
      [op |-> "SetTransformations", args |-> <<<<100, 100, 50>>, 0, 0, 0, <<-11400, 50, 4000>>>>],
      [op |-> "SetShaderTexture", tag |-> "metal"],
      [op |-> "SetShaderMaterial", tag |-> "metal"],
      [op |-> "Draw", mesh |-> "DrawTorusMesh"],
      [op |-> "SetTransformations", args |-> <<<<100, 100, 50>>, 0, 0, 0, <<-11400, 50, 4200>>>>],
      [op |-> "Draw", mesh |-> "DrawTorusMesh"],
      [op |-> "SetTransformations", args |-> <<<<100, 100, 50>>, 0, 0, 0, <<-11400, 50, 4400>>>>],
      [op |-> "Draw", mesh |-> "DrawTorusMesh"],
      [op |-> "SetTransformations", args |-> <<<<100, 100, 50>>, 0, 0, 0, <<-11400, 50, 4600>>>>],
      [op |-> "Draw", mesh |-> "DrawTorusMesh"],
      [op |-> "SetTransformations", args |-> <<<<100, 100, 50>>, 0, 0, 0, <<-11400, 50, 4800>>>>],
      [op |-> "Draw", mesh |-> "DrawTorusMesh"],
      [op |-> "SetTransformations", args |-> <<<<100, 100, 50>>, 0, 0, 0, <<-11400, 50, 5000>>>>],
      [op |-> "Draw", mesh |-> "DrawTorusMesh"],
      [op |-> "SetTransformations", args |-> <<<<100, 100, 50>>, 0, 0, 0, <<-11400, 50, 5200>>>>],
      [op |-> "Draw", mesh |-> "DrawTorusMesh"],
      [op |-> "SetTransformations", args |-> <<<<100, 100, 50>>, 0, 0, 0, <<-11400, 50, 5400>>>>],
      [op |-> "Draw", mesh |-> "DrawTorusMesh"],
      [op |-> "SetTransformations", args |-> <<<<100, 100, 50>>, 0, 0, 0, <<-11400, 50, 5600>>>>],
      [op |-> "Draw", mesh |-> "DrawTorusMesh"],
      [op |-> "SetTransformations", args |-> <<<<100, 100, 50>>, 0, 0, 0, <<-11400, 50, 5800>>>>],
      [op |-> "Draw", mesh |-> "DrawTorusMesh"],
      [op |-> "SetTransformations", args |-> <<<<100, 100, 50>>, 0, 0, 0, <<-11400, 50, 6000>>>>],
      [op |-> "Draw", mesh |-> "DrawTorusMesh"],
      [op |-> "SetTransformations", args |-> <<<<100, 100, 50>>, 0, 0, 0, <<-11400, 50, 6200>>>>],
      [op |-> "Draw", mesh |-> "DrawTorusMesh"],
      [op |-> "SetTransformations", args |-> <<<<100, 100, 50>>, 0, 0, 0, <<-11400, 50, 6400>>>>],
      [op |-> "Draw", mesh |-> "DrawTorusMesh"],
      [op |-> "SetTransformations", args |-> <<<<100, 100, 50>>, 0, 0, 0, <<-11400, 50, 6600>>>>],
      [op |-> "Draw", mesh |-> "DrawTorusMesh"],
      [op |-> "SetTransformations", args |-> <<<<100, 100, 50>>, 0, 0, 0, <<-11400, 50, 6800>>>>],
      [op |-> "Draw", mesh |-> "DrawTorusMesh"],
      [op |-> "SetTransformations", args |-> <<<<100, 100, 50>>, 0, 0, 0, <<-11400, 50, 7000>>>>],
      [op |-> "Draw", mesh |-> "DrawTorusMesh"],
      [op |-> "SetTransformations", args |-> <<<<100, 100, 50>>, 0, 0, 0, <<-11400, 50, 7200>>>>],
      [op |-> "Draw", mesh |-> "DrawTorusMesh"],
      [op |-> "SetTransformations", args |-> <<<<100, 100, 50>>, 0, 0, 0, <<-11400, 50, 7400>>>>],
      [op |-> "Draw", mesh |-> "DrawTorusMesh"],
      [op |-> "SetTransformations", args |-> <<<<100, 100, 50>>, 0, 0, 0, <<-11400, 50, 3800>>>>],
      [op |-> "Draw", mesh |-> "DrawTorusMesh"],
      [op |-> "SetTransformations", args |-> <<<<100, 100, 50>>, 0, 0, 0, <<-11400, 50, 3600>>>>],
      [op |-> "Draw", mesh |-> "DrawTorusMesh"],
      [op |-> "SetTransformations", args |-> <<<<100, 100, 50>>, 0, 0, 0, <<-11400, 50, 3400>>>>],
      [op |-> "Draw", mesh |-> "DrawTorusMesh"],
      [op |-> "SetTransformations", args |-> <<<<100, 100, 50>>, 0, 0, 0, <<-11400, 50, 3200>>>>],
      [op |-> "Draw", mesh |-> "DrawTorusMesh"],
      [op |-> "SetTransformations", args |-> <<<<100, 100, 50>>, 0, 0, 0, <<-11400, 50, 3000>>>>],
      [op |-> "Draw", mesh |-> "DrawTorusMesh"],
      [op |-> "SetTransformations", args |-> <<<<100, 100, 50>>, 0, 0, 0, <<-11400, 50, 2800>>>>],
      [op |-> "Draw", mesh |-> "DrawTorusMesh"],
      [op |-> "SetTransformations", args |-> <<<<100, 100, 50>>, 0, 0, 0, <<-11400, 50, 2600>>>>],
      [op |-> "Draw", mesh |-> "DrawTorusMesh"],
      [op |-> "SetTransformations", args |-> <<<<100, 100, 50>>, 0, 0, 0, <<-11400, 50, 2400>>>>],
      [op |-> "Draw", mesh |-> "DrawTorusMesh"],
      [op |-> "SetTransformations", args |-> <<<<100, 100, 50>>, 0, 0, 0, <<-11400, 50, 2200>>>>],
      [op |-> "Draw", mesh |-> "DrawTorusMesh"],
      [op |-> "SetTransformations", args |-> <<<<100, 100, 50>>, 0, 0, 0, <<-11400, 50, 2000>>>>],
      [op |-> "Draw", mesh |-> "DrawTorusMesh"],
      [op |-> "SetTransformations", args |-> <<<<100, 100, 50>>, 0, 0, 0, <<-11400, 50, 1800>>>>],
      [op |-> "Draw", mesh |-> "DrawTorusMesh"],
      [op |-> "SetTransformations", args |-> <<<<100, 100, 50>>, 0, 0, 0, <<-11400, 50, 1600>>>>],
      [op |-> "Draw", mesh |-> "DrawTorusMesh"],
      [op |-> "SetTransformations", args |-> <<<<100, 300, 100>>, -90000, 45000, 0, <<-9800, 200, 2200>>>>],
      [op |-> "SetShaderMaterial", tag |-> "wood"],
      [op |-> "SetShaderTexture", tag |-> "wood"],
      [op |-> "Draw", mesh |-> "DrawConeMesh"],
      [op |-> "SetTransformations", args |-> <<<<100, 300, 100>>, -90000, 45000, 0, <<-10300, 200, 2700>>>>],
      [op |-> "Draw", mesh |-> "DrawConeMesh"],
      [op |-> "SetTransformations", args |-> <<<<100, 3253, 100>>, -90000, 45000, 0, <<-7500, 200, 4500>>>>],
      [op |-> "SetShaderColor", rgba |-> <<200, 200, 200, 1000>>],
      [op |-> "SetShaderMaterial", tag |-> "pencil"],
      [op |-> "SetShaderTexture", tag |-> "pencil"],
      [op |-> "Draw", mesh |-> "DrawCylinderMesh"],
      [op |-> "SetTransformations", args |-> <<<<100, 3253, 100>>, -90000, 45000, 0, <<-8000, 200, 5000>>>>],
      [op |-> "Draw", mesh |-> "DrawCylinderMesh"],
      [op |-> "SetTransformations", args |-> <<<<105, 300, 105>>, -90000, 45000, 0, <<-7300, 200, 4700>>>>],
      [op |-> "SetShaderColor", rgba |-> <<200, 200, 200, 1000>>],
      [op |-> "SetShaderMaterial", tag |-> "metal"],
      [op |-> "SetShaderTexture", tag |-> "metal1"],
      [op |-> "Draw", mesh |-> "DrawCylinderMesh"],
      [op |-> "SetTransformations", args |-> <<<<105, 300, 105>>, -90000, 45000, 0, <<-7800, 200, 5200>>>>],
      [op |-> "Draw", mesh |-> "DrawCylinderMesh"],
      [op |-> "SetTransformations", args |-> <<<<100, 200, 100>>, -90000, 45000, 0, <<-7200, 200, 4800>>>>],
      [op |-> "SetShaderMaterial", tag |-> "rubber"],
      [op |-> "SetShaderTexture", tag |-> "eraser"],
      [op |-> "Draw", mesh |-> "DrawCylinderMesh"],
      [op |-> "SetTransformations", args |-> <<<<100, 200, 100>>, -90000, 45000, 0, <<-7700, 200, 5300>>>>],
      [op |-> "Draw", mesh |-> "DrawCylinderMesh"]>>

\* The matrix each SetTransformations call of the script composes from its
\* arguments, by call number. The arguments are literals, so every
\* RenderScene composes the same matrices.
ScriptModelViews ==
    {<<k, ModelView(SceneScript[k].args[1], SceneScript[k].args[2], SceneScript[k].args[3],
                    SceneScript[k].args[4], SceneScript[k].args[5])>> :
        k \in {j \in DOMAIN SceneScript : SceneScript[j].op = "SetTransformations"}}

\* The matrix call k of the script composes, k a SetTransformations call.
ScriptModelView_Stale(k) ==
    (CHOOSE p \in ScriptModelViews : p[1] = 1)[2]

ScriptModelView(k) ==
    (CHOOSE p \in ScriptModelViews : p[1] = k)[2]

\* Call k of the script.
ScriptStep(s, k) ==
    LET step == SceneScript[k]
    IN
    CASE step.op = "SetTransformations" ->
            {Log(t, step) : t \in SendModelView(s, ScriptModelView(k))}
      [] step.op = "SetShaderColor" ->
            {Log(t, step) : t \in SetShaderColorFrom(s, step.rgba)}
      [] step.op = "SetShaderMaterial" ->
            {Log(t, step) : t \in SetShaderMaterialFrom(s, step.tag)}
      [] step.op = "SetShaderTexture" ->
            {Log(t, step) : t \in SetShaderTextureFrom(s, step.tag)}
      [] step.op = "Draw" ->
            {Log(s, [op |-> "Draw", mesh |-> step.mesh, uniforms |-> s.uniforms])}

\* Calls lo..hi of the script, in order.
RECURSIVE RunScript(_, _, _)
RunScript(S, lo, hi) ==
    IF lo = hi
    THEN LET step(s) == ScriptStep(s, lo)
         IN  Then(S, step)
    ELSE LET mid == (lo + hi) \div 2
             first == RunScript(S, lo, mid)
         IN  IF first = {} THEN {} ELSE RunScript(first, mid + 1, hi)

\* SceneManager::RenderScene
RenderSceneFrom(s) == {[t EXCEPT !.ret = IF t.status = "crashed" THEN "none" ELSE "void"] :
                          t \in RunScript({s}, 1, Len(SceneScript))}

\* ---------------------------------------------- transformations: SpecXform

\* Scale factors are 1..MaxCoord and positions 0..MaxCoord-1 on each axis.
MaxCoord == 2

ScaleGrid == {k * One : k \in 1 .. MaxCoord}

PositionGrid == {k * One : k \in 0 .. (MaxCoord - 1)}

AngleGrid == {0, 90000, 180000, -90000}

Vec3s(S) == {<<x, y, z>> : x \in S, y \in S, z \in S}

InitXform ==
    /\ \E p \in {NULL, "shader"} : Constructed(p)
    /\ disk = ApiDisk

\* Arguments after which a further call is explored: every call is explored
\* on the constructed scene manager and after a call with these.
IdentityArgs == <<<<One, One, One>>, 0, 0, 0, <<0, 0, 0>>>>

QuarterTurnArgs == <<<<One, 2 * One, One>>, 90000, 90000, 90000, <<One, 0, 0>>>>

GridArgs ==
    {<<scaleXYZ, Xdeg, Ydeg, Zdeg, positionXYZ>> :
        scaleXYZ \in Vec3s(ScaleGrid), Xdeg \in AngleGrid, Ydeg \in AngleGrid,
        Zdeg \in AngleGrid, positionXYZ \in Vec3s(PositionGrid)}

\* A call of SetTransformations with arguments from a set.
SetTransformationsWith(Args) ==
    /\ status = "running"
    /\ \E args \in Args :
          /\ \E s \in SetTransformationsFrom(Here, args[1], args[2], args[3], args[4],
                                             args[5]) : Becomes(s)
          /\ lastCall' = [op |-> "SetTransformations", tag |-> "", ret |-> "void",
                          args |-> args]

SetTransformations ==
    /\ \/ lastCall.op = "SceneManager"
       \/ lastCall.op = "SetTransformations"
          /\ lastCall.args \in {IdentityArgs, QuarterTurnArgs}
    /\ SetTransformationsWith(GridArgs)

NextXform == SetTransformations

SpecXform == InitXform /\ [][NextXform]_vars

\* ------------------------------------------- the scene script: SpecScene

\* PrepareScene calls in one behaviour.
MaxPrepare == 2

SceneFiles == {SceneLoads[k][1] : k \in DOMAIN SceneLoads}

\* The texture files on disk: any set of them fails to load, all of these
\* for the same reason (no decode, or one channel), and the others have
\* three or four channels.
SceneDisks ==
    {[f \in SceneFiles |-> IF f \in bad THEN k ELSE g] :
        bad \in SUBSET SceneFiles, k \in {0, 1}, g \in {3, 4}}

InitScene ==
    /\ \E p \in {NULL, "shader"} : Constructed(p)
    /\ disk \in SceneDisks

PrepareScene ==
    /\ status = "running"
    /\ Len(m_objectMaterials) < MaxPrepare * Len(SceneMaterials)
    /\ \E s \in PrepareSceneFrom(Here) :
          /\ Becomes(s)
          /\ lastCall' = [op |-> "PrepareScene", tag |-> "", ret |-> s.ret]

RenderScene ==
    /\ status = "running"
    /\ \E s \in RenderSceneFrom(Here) :
          /\ Becomes(s)
          /\ lastCall' = [op |-> "RenderScene", tag |-> "", ret |-> s.ret]

NextScene ==
    \/ PrepareScene
    \/ RenderScene

SpecScene == InitScene /\ [][NextScene]_vars

\* ------------------------------------------ the shader setters: SpecShader

\* The texture files of the scene, all RGB, or all RGB but the first, which
\* does not decode.
ShaderDisks ==
    {d \in SceneDisks :
        \A f \in SceneFiles : d[f] = 3 \/ (f = SceneLoads[1][1] /\ d[f] = 0)}

InitShader ==
    /\ \E p \in {NULL, "shader"} : Constructed(p)
    /\ disk \in ShaderDisks

\* Tags the material calls are made with: the first and the last tag of the
\* list and one that is in no list.
MaterialProbeTags ==
    {AbsentTag} \cup
    (IF Len(m_objectMaterials) > 0
     THEN {m_objectMaterials[1].tag, m_objectMaterials[Len(m_objectMaterials)].tag}
     ELSE {})

CallFindMaterial ==
    /\ status = "running"
    /\ \E tag \in MaterialProbeTags, material \in IndeterminateMaterials :
          LET found == FindMaterialIn(Here, tag, material)
          IN  lastCall' = [op |-> "FindMaterial", tag |-> tag, ret |-> found.ret,
                           material |-> found.material]
    /\ Becomes(Here)

SetShaderMaterial ==
    /\ status = "running"
    /\ \E tag \in MaterialProbeTags :
          \E s \in SetShaderMaterialFrom(Here, tag) :
             /\ Becomes(s)
             /\ lastCall' = [op |-> "SetShaderMaterial", tag |-> tag, ret |-> s.ret]

SetShaderTexture ==
    /\ status = "running"
    /\ \E tag \in ProbeTags :
          \E s \in SetShaderTextureFrom(Here, tag) :
             /\ Becomes(s)
             /\ lastCall' = [op |-> "SetShaderTexture", tag |-> tag, ret |-> s.ret]

\* The colour the scene script passes.
ScriptColor == <<200, 200, 200, 1000>>

SetShaderColor ==
    /\ status = "running"
    /\ \E s \in SetShaderColorFrom(Here, ScriptColor) :
          /\ Becomes(s)
          /\ lastCall' = [op |-> "SetShaderColor", tag |-> "", ret |-> s.ret]

SetTransformationsTurn == SetTransformationsWith({QuarterTurnArgs})

NextShader ==
    \/ PrepareScene
    \/ RenderScene
    \/ SetShaderTexture
    \/ SetShaderMaterial
    \/ SetTransformationsTurn
    \/ SetShaderColor
    \/ CallFindTextureSlot
    \/ CallFindTextureID
    \/ CallFindMaterial

SpecShader == InitShader /\ [][NextShader]_vars

\* ------------------------------------- the graphics API's textures: SpecGL

\* Texture names glGenTextures has handed out and that are still allocated:
\* no line of the scene manager calls glDeleteTextures, so a name handed out
\* stays allocated.
glAllocated == 1 .. (glNextName - 1)

\* SceneManager::DestroyGLTextures: for every entry below the cursor,
\* glGenTextures(1, &m_textureIDs[i].ID) stores a newly generated name in
\* the entry.
DestroyGLTexturesFrom(s) ==
    {[s EXCEPT !.m_textureIDs = [i \in Slots |->
                                    IF i < s.m_loadedTextures
                                    THEN [s.m_textureIDs[i] EXCEPT !.ID = s.glNextName + i]
                                    ELSE s.m_textureIDs[i]],
               !.glNextName = s.glNextName + s.m_loadedTextures,
               !.ret = "void"]}

\* Textures registered in one behaviour of SpecGL.
MaxTextures == 4

InitGL ==
    /\ Constructed("shader")
    /\ disk = ApiDisk

LoadTexture ==
    /\ m_loadedTextures < MaxTextures
    /\ CreateGLTexture

BindGLTextures ==
    /\ status = "running"
    /\ \E s \in BindGLTexturesFrom(Here) :
          /\ Becomes(s)
          /\ lastCall' = [op |-> "BindGLTextures", tag |-> "", ret |-> s.ret]

\* SceneManager::~SceneManager: m_pShaderManager = NULL, the meshes are
\* deleted, DestroyGLTextures(); the object is gone afterwards.
Destructor ==
    /\ status = "running"
    /\ \E s \in DestroyGLTexturesFrom(Here) :
          /\ Assigns([s EXCEPT !.status = "destroyed"])
          /\ lastCall' = [op |-> "~SceneManager", tag |-> "", ret |-> s.ret]
    /\ m_pShaderManager' = NULL
    /\ UNCHANGED disk

NextGL ==
    \/ LoadTexture
    \/ BindGLTextures
    \/ SetShaderTexture
    \/ Destructor

SpecGL == InitGL /\ [][NextGL]_vars

\* ------------------------------------------------- claims on the registry

\* All tags a lookup can be asked for: the pool, the absent tag and the tag
\* the constructor leaves in unused slots.
AllTags == {TagPool[i] : i \in DOMAIN TagPool} \cup {AbsentTag, InitialTag}

Loaded == {i \in Slots : i < m_loadedTextures}

\* C1: a CreateGLTexture call whose image decodes with 3 or 4 channels
\* returns true, advances the loaded count by exactly one, leaves the given
\* tag and the newly generated handle at the index of the previous count,
\* and leaves every earlier entry as it was.
C1_LoadRegistersOne ==
    [][\A filename \in DOMAIN disk, tag \in LoadTags :
          (/\ disk[filename] \in {3, 4}
           /\ lastCall'.op = "CreateGLTexture"
           /\ \E s \in CreateGLTextureFrom(Here, filename, tag) : Becomes(s))
          => /\ status' = "running"
             /\ lastCall'.ret = "true"
             /\ m_loadedTextures' = m_loadedTextures + 1
             /\ m_loadedTextures \in DOMAIN m_textureIDs'
             /\ m_textureIDs'[m_loadedTextures] = [tag |-> tag, ID |-> glNextName]
             /\ \A i \in Loaded : m_textureIDs'[i] = m_textureIDs[i]]_vars

\* C2: a CreateGLTexture call whose image does not decode, or decodes with a
\* channel count other than 3 or 4, returns false and leaves the loaded
\* count and all sixteen entries unchanged.
C2_FailedLoadRegistersNothing ==
    [][\A filename \in DOMAIN disk, tag \in LoadTags :
          (/\ disk[filename] \notin {3, 4}
           /\ lastCall'.op = "CreateGLTexture"
           /\ \E s \in CreateGLTextureFrom(Here, filename, tag) : Becomes(s))
          => /\ lastCall'.ret = "false"
             /\ m_loadedTextures' = m_loadedTextures
             /\ m_textureIDs' = m_textureIDs]_vars

\* C2 witness: a load of the one-channel image has returned false with
\* textures already registered.
C2_Witness ==
    /\ lastCall.op = "CreateGLTexture"
    /\ lastCall.ret = "false"
    /\ imagesLive = 1
    /\ m_loadedTextures = 2

RegLogDistinct ==
    \A i, j \in DOMAIN regLog : i # j => regLog[i].tag # regLog[j].tag

\* C3: after N registrations with pairwise distinct tags, N within capacity,
\* FindTextureSlot gives every registered tag the index it was registered
\* at, FindTextureID gives it the handle it was registered with, and both
\* give -1 for every tag never registered.
C3_LookupAfterRegistrations ==
    (status = "running" /\ RegLogDistinct /\ Len(regLog) <= TextureCapacity)
    => /\ \A k \in DOMAIN regLog :
             /\ FindTextureSlot(regLog[k].tag) = regLog[k].index
             /\ regLog[k].index = k - 1
             /\ FindTextureID(regLog[k].tag) = regLog[k].ID
       /\ \A t \in AllTags \ {regLog[k].tag : k \in DOMAIN regLog} :
             /\ FindTextureSlot(t) = -1
             /\ FindTextureID(t) = -1
       /\ lastCall.op = "FindTextureSlot" => lastCall.ret = FindTextureSlot(lastCall.tag)
       /\ lastCall.op = "FindTextureID" => lastCall.ret = FindTextureID(lastCall.tag)

\* C3 witness: the registry is full of distinct tags and FindTextureSlot has
\* just returned the last slot for the newest tag.
C3_Witness ==
    /\ status = "running"
    /\ RegLogDistinct
    /\ Len(regLog) = TextureCapacity
    /\ lastCall.op = "FindTextureSlot"
    /\ lastCall.tag = regLog[TextureCapacity].tag
    /\ lastCall.ret = TextureCapacity - 1

\* C4: the loaded count stays within 0..16 and no write goes to an index
\* outside 0..15.
C4_WithinCapacity ==
    /\ m_loadedTextures \in 0 .. TextureCapacity
    /\ oobIndex = -1

\* C5 as stated: no two registered entries carry the same tag.
C5_TagsUnique ==
    \A i, j \in Loaded : i # j => m_textureIDs[i].tag # m_textureIDs[j].tag

\* C5 as amended: the registered entries carry pairwise distinct tags as
\* long as the CreateGLTexture calls that registered them were made with
\* pairwise distinct tags.
C5_TagsUniqueWhenCallsAre ==
    RegLogDistinct
    => \A i, j \in Loaded : i # j => m_textureIDs[i].tag # m_textureIDs[j].tag

\* C5 witness: nine textures registered under nine different tags.
C5_Witness ==
    /\ RegLogDistinct
    /\ Len(regLog) = 9
    /\ m_loadedTextures = 9
    /\ lastCall.op = "CreateGLTexture"
    /\ lastCall.ret = "true"

\* ------------------------------------------------ claims on the transform

\* A point (x, y, z), w = 1, taken through a mat4.
TransformRow(m, v, r) ==
    FxMul(m[r][1], v[1]) + FxMul(m[r][2], v[2]) + FxMul(m[r][3], v[3]) + m[r][4]

Transform(m, v) == <<TransformRow(m, v, 1), TransformRow(m, v, 2), TransformRow(m, v, 3)>>

\* The elementary motions of a point, written out by coordinates.
Scaled(s, v) == <<FxMul(s[1], v[1]), FxMul(s[2], v[2]), FxMul(s[3], v[3])>>

TurnedX(deg, v) ==
    <<v[1],
      FxMul(CosDeg(deg), v[2]) - FxMul(SinDeg(deg), v[3]),
      FxMul(SinDeg(deg), v[2]) + FxMul(CosDeg(deg), v[3])>>

TurnedY(deg, v) ==
    <<FxMul(CosDeg(deg), v[1]) + FxMul(SinDeg(deg), v[3]),
      v[2],
      FxMul(CosDeg(deg), v[3]) - FxMul(SinDeg(deg), v[1])>>

TurnedZ(deg, v) ==
    <<FxMul(CosDeg(deg), v[1]) - FxMul(SinDeg(deg), v[2]),
      FxMul(SinDeg(deg), v[1]) + FxMul(CosDeg(deg), v[2]),
      v[3]>>

Moved(p, v) == <<v[1] + p[1], v[2] + p[2], v[3] + p[3]>>

\* The origin and the three unit points: an affine map is fixed by them.
TestPoints == {<<0, 0, 0>>, <<One, 0, 0>>, <<0, One, 0>>, <<0, 0, One>>}

\* C7: the matrix SetTransformations sends as "model" is translation *
\* rotateZ * rotateY * rotateX * scale of that call's arguments: it takes a
\* vertex through the scale first, then the turns about X, Y and Z, then the
\* translation, and its last row is (0, 0, 0, 1).
C7_ModelIsTRzRyRxS ==
    (lastCall.op = "SetTransformations" /\ m_pShaderManager # NULL)
    => LET scaleXYZ == lastCall.args[1]
           Xdeg == lastCall.args[2]
           Ydeg == lastCall.args[3]
           Zdeg == lastCall.args[4]
           positionXYZ == lastCall.args[5]
       IN  /\ uniforms.model[4] = <<0, 0, 0, One>>
           /\ \A v \in TestPoints :
                 Transform(uniforms.model, v) =
                    Moved(positionXYZ,
                          TurnedZ(Zdeg, TurnedY(Ydeg, TurnedX(Xdeg, Scaled(scaleXYZ, v)))))

\* C7 witness: a call in which the order of the factors shows: unequal scale
\* factors, a quarter turn about each axis and a translation.
C7_Witness ==
    /\ lastCall.op = "SetTransformations"
    /\ m_pShaderManager # NULL
    /\ lastCall.args = QuarterTurnArgs
    /\ uniforms.model = Mat4(<<0, 0, One, One>>, <<0, 2 * One, 0, 0>>,
                             <<-One, 0, 0, 0>>, <<0, 0, 0, One>>)

\* C8: scale (1, 1, 1), angles 0 and position (0, 0, 0) send the identity.
C8_IdentityArguments ==
    (/\ lastCall.op = "SetTransformations"
     /\ m_pShaderManager # NULL
     /\ lastCall.args = IdentityArgs)
    => uniforms.model = Identity4

\* C8 witness: the call with the identity arguments has been made.
C8_Witness ==
    /\ lastCall.op = "SetTransformations"
    /\ m_pShaderManager # NULL
    /\ lastCall.args = IdentityArgs
    /\ uniforms.model = Identity4

\* ----------------------------------------------- claims on the materials

\* C6: FindMaterial(tag, material) returns true exactly when an entry of
\* the material list carries the tag, and false otherwise, whether the list
\* is empty or not.
C6_FindMaterialReportsAbsence ==
    lastCall.op = "FindMaterial" =>
        (lastCall.ret = "true" <=>
            \E i \in DOMAIN m_objectMaterials : m_objectMaterials[i].tag = lastCall.tag)

\* ------------------------------------------------- claims on rendering

RenderOps ==
    {"RenderScene", "SetShaderTexture", "SetShaderMaterial", "SetTransformations",
     "SetShaderColor", "FindTextureSlot", "FindTextureID", "FindMaterial"}

\* C9: a call of RenderScene, SetShaderTexture, SetShaderMaterial,
\* SetTransformations, SetShaderColor, FindTextureSlot, FindTextureID or
\* FindMaterial that returns leaves the texture array, the loaded count and
\* the material list as they were.
C9_RenderingReadsRegistries ==
    [][(lastCall'.op \in RenderOps /\ status' = "running") => UNCHANGED registry]_vars

\* C9 witness: RenderScene has returned on a prepared scene, with textures
\* and materials registered, and has made every call of its script.
C9_Witness ==
    /\ lastCall.op = "RenderScene"
    /\ status = "running"
    /\ m_loadedTextures > 0
    /\ Len(m_objectMaterials) > 0
    /\ Len(callLog) = Len(SceneScript)
    /\ callLog[Len(callLog)].op = "Draw"
    /\ uniforms.lights = "set"

\* ------------------------------------------ claims on scene construction

\* Load k of the scene finds a file that decodes with 3 or 4 channels.
Loads(k) == SupportedChannels(disk[SceneLoads[k][1]])

\* The texture name glGenTextures hands to load k on a new scene manager:
\* every earlier load whose file decodes has taken one.
HandleOfLoad(k) ==
    1 + Cardinality({j \in 1 .. (k - 1) : disk[SceneLoads[j][1]] # 0})

\* The scene has been constructed: PrepareScene has been called once.
SceneConstructed ==
    /\ lastCall.op = "PrepareScene"
    /\ Len(m_objectMaterials) = Len(SceneMaterials)

\* C10: whichever of the nine texture files fail to load, PrepareScene
\* makes the nine CreateGLTexture calls in order, then BindGLTextures, then
\* the light setup and (the shader manager not being NULL) the seven mesh
\* loads; afterwards FindTextureSlot returns -1 for the tag of every failed
\* load, and for the tag of every load that succeeded a slot that holds the
\* tag and the handle generated in that load.
C10_ConstructionIgnoresLoadFailures ==
    SceneConstructed =>
        /\ Len(callLog) >= Len(SceneLoads) + 3
        /\ callLog[1].op = "DefineObjectMaterials"
        /\ \A k \in DOMAIN SceneLoads :
              callLog[1 + k] =
                 [op |-> "CreateGLTexture", filename |-> SceneLoads[k][1],
                  tag |-> SceneLoads[k][2],
                  ret |-> IF Loads(k) THEN "true" ELSE "false"]
        /\ callLog[Len(SceneLoads) + 2].op = "BindGLTextures"
        /\ callLog[Len(SceneLoads) + 3].op = "SetupSceneLights"
        /\ m_pShaderManager # NULL =>
              /\ status = "running"
              /\ lastCall.ret = "void"
              /\ uniforms.lights = "set"
              /\ Len(callLog) = Len(SceneLoads) + 3 + Len(MeshLoads)
              /\ \A k \in DOMAIN MeshLoads :
                    callLog[Len(SceneLoads) + 3 + k].op = MeshLoads[k]
              /\ \A k \in DOMAIN SceneLoads :
                    IF Loads(k)
                    THEN /\ FindTextureSlot(SceneLoads[k][2]) \in Loaded
                         /\ m_textureIDs[FindTextureSlot(SceneLoads[k][2])] =
                               [tag |-> SceneLoads[k][2], ID |-> HandleOfLoad(k)]
                         /\ FindTextureID(SceneLoads[k][2]) = HandleOfLoad(k)
                    ELSE FindTextureSlot(SceneLoads[k][2]) = -1

\* C10 witness: the scene has been constructed with a file that does not
\* decode, a file with one channel and, after both, files that load.
C10_Witness ==
    /\ SceneConstructed
    /\ status = "running"
    /\ disk[SceneLoads[1][1]] = 1
    /\ disk[SceneLoads[2][1]] = 3
    /\ disk[SceneLoads[5][1]] = 1
    /\ disk[SceneLoads[9][1]] = 3
    /\ FindTextureSlot(SceneLoads[1][2]) = -1
    /\ FindTextureSlot(SceneLoads[9][2]) = m_loadedTextures - 1
    /\ m_loadedTextures \in 2 .. (Len(SceneLoads) - 2)
    /\ callLog[Len(callLog)].op = MeshLoads[Len(MeshLoads)]

\* ------------------------------------------------------ claims on teardown

\* C11: the destructor's DestroyGLTextures releases every texture name that
\* a successful CreateGLTexture registered, and generates no new name.
C11_TeardownReleasesTextures ==
    [][lastCall'.op = "~SceneManager" =>
          /\ glNextName' = glNextName
          /\ \A i \in DOMAIN regLog' : regLog'[i].ID \notin glAllocated']_vars

\* ------------------------------------------------ claims on the render script

\* The draw calls of the last RenderScene, by position in its call log.
Draws == {i \in DOMAIN callLog : callLog[i].op = "Draw"}

\* The last call at or before position i of the call log that is one of
\* ops, or 0.
RECURSIVE LastOf(_, _)
LastOf(ops, i) ==
    IF i = 0 \/ callLog[i].op \in ops THEN i ELSE LastOf(ops, i - 1)

\* C12: in RenderScene a SetTransformations call precedes the first draw and
\* lies between every two consecutive draws, and (with a shader manager) the
\* model matrix of a draw is not the one of the draw before it.
C12_TransformBeforeEveryDraw ==
    lastCall.op = "RenderScene" =>
        \A i \in DOMAIN callLog :
            callLog[i].op = "Draw" =>
                LET pushed == LastOf({"Draw", "SetTransformations"}, i - 1)
                    drawn == LastOf({"Draw"}, i - 1)
                IN  /\ pushed > 0
                    /\ callLog[pushed].op = "SetTransformations"
                    /\ (m_pShaderManager # NULL /\ drawn > 0) =>
                          callLog[i].uniforms.model # callLog[drawn].uniforms.model

\* C12 witness: RenderScene has run to its last draw with a shader manager.
C12_Witness ==
    /\ lastCall.op = "RenderScene"
    /\ m_pShaderManager # NULL
    /\ status = "running"
    /\ Cardinality(Draws) = Cardinality({k \in DOMAIN SceneScript : SceneScript[k].op = "Draw"})
    /\ callLog[Len(callLog)].op = "Draw"
    /\ callLog[Len(callLog)].uniforms.model = uniforms.model

\* C13: once PrepareScene has populated it, the material list holds exactly
\* the eight presets carbon, plastic, fabric, note, wood, pencil, metal and
\* rubber, no tag twice, however many times PrepareScene is called.
C13_MaterialsDefinedOnce ==
    (status = "running" /\ Len(m_objectMaterials) > 0) =>
        /\ m_objectMaterials = SceneMaterials
        /\ \A i, j \in DOMAIN m_objectMaterials :
              i # j => m_objectMaterials[i].tag # m_objectMaterials[j].tag

\* ------------------------------------------------- claims on first match

\* The indices below the loaded count whose entry carries the tag.
SlotsTagged(tag) == {i \in Loaded : m_textureIDs[i].tag = tag}

\* The smallest of a non-empty set of indices.
First(S) == CHOOSE i \in S : \A j \in S : i <= j

\* The positions of the material list whose entry carries the tag.
MaterialsTagged(tag) ==
    {i \in DOMAIN m_objectMaterials : m_objectMaterials[i].tag = tag}

\* C14: when a tag is registered more than once, FindTextureSlot returns the
\* smallest index holding it and FindTextureID the handle stored at that
\* index; FindMaterial copies the diffuse colour, the specular colour and
\* the shininess of the first entry of the material list with the tag.
C14_LookupIsFirstMatch ==
    status = "running" =>
        /\ \A tag \in RegisteredTags :
              /\ FindTextureSlot(tag) = First(SlotsTagged(tag))
              /\ FindTextureID(tag) = m_textureIDs[First(SlotsTagged(tag))].ID
        /\ (lastCall.op = "FindTextureSlot" /\ SlotsTagged(lastCall.tag) # {}) =>
              lastCall.ret = First(SlotsTagged(lastCall.tag))
        /\ (lastCall.op = "FindTextureID" /\ SlotsTagged(lastCall.tag) # {}) =>
              lastCall.ret = m_textureIDs[First(SlotsTagged(lastCall.tag))].ID
        /\ (lastCall.op = "FindMaterial" /\ MaterialsTagged(lastCall.tag) # {}) =>
              LET first == m_objectMaterials[First(MaterialsTagged(lastCall.tag))]
              IN  /\ lastCall.material.diffuseColor = first.diffuseColor
                  /\ lastCall.material.specularColor = first.specularColor
                  /\ lastCall.material.shininess = first.shininess

\* C14 witness: FindTextureID has been called with a tag registered twice,
\* under two handles, and has returned the handle at the smaller index,
\* with the material list holding every tag twice.
C14_Witness ==
    /\ status = "running"
    /\ lastCall.op = "FindTextureID"
    /\ Cardinality(SlotsTagged(lastCall.tag)) = 2
    /\ \E i, j \in SlotsTagged(lastCall.tag) :
          /\ i < j
          /\ m_textureIDs[i].ID # m_textureIDs[j].ID
          /\ lastCall.ret = m_textureIDs[i].ID
    /\ Cardinality(MaterialsTagged(SceneMaterials[1].tag)) = 2

\* --------------------------------------------- claims on the texture units

\* Indices of the entries registered before the last BindGLTextures call.
BoundSlots == {i \in Loaded : i < boundCount}

\* C15: once BindGLTextures has been called, texture unit i is bound to the
\* handle stored at index i for every entry registered before the call, so
\* the sampler SetShaderTexture sends for such an entry's tag names the unit
\* bound to the tag's handle; the unit of an entry registered after the
\* last BindGLTextures call is bound to nothing.
C15_UnitIsSlot ==
    (status = "running" /\ boundCount >= 0) =>
        /\ \A i \in BoundSlots : glUnits[i] = m_textureIDs[i].ID
        /\ \A i \in Loaded \ BoundSlots : glUnits[i] = 0
        /\ (/\ lastCall.op = "SetShaderTexture"
            /\ SlotsTagged(lastCall.tag) \cap BoundSlots # {}) =>
              /\ uniforms.objectTexture = First(SlotsTagged(lastCall.tag))
              /\ glUnits[uniforms.objectTexture] =
                    m_textureIDs[First(SlotsTagged(lastCall.tag))].ID

\* -------------------------------------------- claims on the script's tags

\* RenderScene has returned on a scene constructed from nine texture files
\* that all loaded.
RenderedWithAllTextures ==
    /\ status = "running"
    /\ lastCall.op = "RenderScene"
    /\ \A k \in DOMAIN SceneLoads : Loads(k)
    /\ m_loadedTextures = Len(SceneLoads)
    /\ Len(m_objectMaterials) = Len(SceneMaterials)

\* C16: after a PrepareScene whose nine loads all succeed, every
\* SetShaderTexture call of RenderScene passes a tag that FindTextureSlot
\* resolves to a slot in 0..8, and every SetShaderMaterial call a tag that
\* is in the material list; the sampler at every draw is such a slot.
C16_ScriptTagsResolve ==
    RenderedWithAllTextures =>
        \A i \in DOMAIN callLog :
            /\ callLog[i].op = "SetShaderTexture" =>
                  FindTextureSlot(callLog[i].tag) \in 0 .. (Len(SceneLoads) - 1)
            /\ callLog[i].op = "SetShaderMaterial" =>
                  MaterialsTagged(callLog[i].tag) # {}
            /\ callLog[i].op = "Draw" =>
                  callLog[i].uniforms.objectTexture \in 0 .. (Len(SceneLoads) - 1)

\* C16 witness: RenderScene has made all its calls on such a scene, the
\* last texture call with the tag of the last slot.
C16_Witness ==
    /\ RenderedWithAllTextures
    /\ Len(callLog) = Len(SceneScript)
    /\ \E i \in DOMAIN callLog :
          /\ callLog[i].op = "SetShaderTexture"
          /\ FindTextureSlot(callLog[i].tag) = Len(SceneLoads) - 1
    /\ \E i \in DOMAIN callLog :
          /\ callLog[i].op = "SetShaderMaterial"
          /\ callLog[i].tag = SceneMaterials[Len(SceneMaterials)].tag

\* ------------------------------------------- claims on what a load acquires

\* C17: a CreateGLTexture call whose image decoded (it generated a texture
\* name) has, when it returns true or false, freed the pixel buffer, reset
\* the GL_TEXTURE_2D binding to 0, and either registered the name it
\* generated or not left it allocated.
C17_LoadReleasesWhatItAcquires ==
    [][(/\ lastCall'.op = "CreateGLTexture"
        /\ glNextName' > glNextName
        /\ status' = "running")
       => /\ imagesLive' = imagesLive
          /\ glUnits'[glActiveUnit'] = 0
          /\ \/ \E i \in DOMAIN regLog' \ DOMAIN regLog : regLog'[i].ID = glNextName
             \/ glNextName \notin glAllocated']_vars

\* ------------------------------------------ claims on the material uniforms

\* The material uniforms SetShaderMaterial sends from a list entry.
MaterialUniforms(entry) ==
    [diffuseColor |-> entry.diffuseColor, specularColor |-> entry.specularColor,
     shininess |-> entry.shininess]

\* C18: SetShaderMaterial(tag) sets the material uniforms from the entry of
\* the material list with that tag, and when no entry has the tag it leaves
\* the material uniforms as they were (here: as an earlier SetShaderMaterial
\* call with a listed tag set them).
C18_MaterialOnlyFromItsEntry ==
    [][(lastCall'.op = "SetShaderMaterial" /\ status' = "running")
       => /\ MaterialsTagged(lastCall'.tag) # {} =>
                uniforms'.material =
                   MaterialUniforms(m_objectMaterials[First(MaterialsTagged(lastCall'.tag))])
          /\ (/\ MaterialsTagged(lastCall'.tag) = {}
              /\ lastCall.op = "SetShaderMaterial"
              /\ MaterialsTagged(lastCall.tag) # {}) =>
                uniforms'.material = uniforms.material]_vars

\* ------------------------------------------------ claims on texture use

\* C19: with a shader manager, SetShaderColor leaves bUseTexture false and
\* SetShaderTexture leaves it true; in RenderScene the last of these two
\* calls before every draw is a SetShaderTexture, and bUseTexture is true
\* at every draw, the pencil draws that follow a SetShaderColor included.
C19_TextureUseAtEveryDraw ==
    m_pShaderManager # NULL =>
        /\ lastCall.op = "SetShaderColor" => uniforms.bUseTexture = FALSE
        /\ lastCall.op = "SetShaderTexture" => uniforms.bUseTexture = TRUE
        /\ lastCall.op = "RenderScene" =>
              \A i \in DOMAIN callLog :
                  callLog[i].op = "Draw" =>
                      LET chosen == LastOf({"SetShaderColor", "SetShaderTexture"}, i - 1)
                      IN  /\ chosen > 0
                          /\ callLog[chosen].op = "SetShaderTexture"
                          /\ callLog[i].uniforms.bUseTexture = TRUE

\* C19 witness: RenderScene has made all its calls with a shader manager,
\* among them a SetShaderColor call followed by a SetShaderTexture call and
\* a draw with bUseTexture true.
C19_Witness ==
    /\ m_pShaderManager # NULL
    /\ status = "running"
    /\ lastCall.op = "RenderScene"
    /\ Len(callLog) = Len(SceneScript)
    /\ \E i, j, k \in DOMAIN callLog :
          /\ i < j /\ j < k
          /\ callLog[i].op = "SetShaderColor"
          /\ callLog[j].op = "SetShaderTexture"
          /\ callLog[k].op = "Draw"
          /\ callLog[k].uniforms.bUseTexture = TRUE
          /\ \A n \in (i + 1) .. (k - 1) : callLog[n].op # "Draw"

====
